---- MODULE Spec2Model ----
(***************************************************************************)
(* The aggregator of phala-tee-cloud-avs:                                  *)
(*   aggregator/context.rs  AggregatorContext (start, start_server,        *)
(*                          shutdown, process_signed_task_response,        *)
(*                          register_task), the JSON-RPC handler and the   *)
(*                          BackgroundService completion channel           *)
(*   aggregator/task.rs     SquaringTaskResponseSender                     *)
(*                          (send_aggregated_response)                     *)
(*                                                                         *)
(* The aggregation engine (blueprint_sdk TaskAggregator) is an external    *)
(* crate.  The model keeps what the repository's code does with it: the    *)
(* calls it makes (start, stop, process_signed_response, register_task),   *)
(* in which order, under which lock, and what it does with their results.  *)
(***************************************************************************)
EXTENDS Integers, Sequences, FiniteSets, TLC

\* ---------------------------------------------------------------- bounds
NumRequests == 2      \* RPC requests the endpoint receives in a run
NumTasks == 2         \* task indices

MaxSends == 3         \* calls of send_aggregated_response in a run
MaxThresholdField == 300  \* largest quorumThresholdPercentage field followed

Reqs == 1..NumRequests
Tasks == 1..NumTasks

\* ------------------------------------------------------------- RPC input
\* A JSON-RPC request's params as the handler sees them after
\* params.parse::<Value>(): an object ("Map") or not one ("NotObject": no
\* params, or a positional array); `kind` says what a "params" member of the
\* object holds: nothing, a value that is no SignedTaskResponse, or a
\* well-formed SignedTaskResponse, of which the model keeps the task index
\* its task response refers to (signature and operator id are carried along
\* unread).
NoResponse == [task |-> 0]

Payloads ==
    {[outer |-> o, kind |-> "absent", task |-> 0] :
        o \in {"NotObject", "Map"}}
    \cup {[outer |-> "Map", kind |-> "malformed", task |-> 0]}
    \cup {[outer |-> "Map", kind |-> "signed", task |-> t] : t \in Tasks}

\* outer_params.get("params"): Value::get with a string key answers only on
\* an object that has the member.
GetParams(p) ==
    IF p.outer = "Map" /\ p.kind # "absent"
    THEN [some |-> TRUE, kind |-> p.kind, task |-> p.task]
    ELSE [some |-> FALSE, kind |-> "absent", task |-> 0]

\* A decoder that substitutes a default response for a value it cannot decode.
FromValueLenient(inner) ==
    IF inner.kind = "signed"
    THEN [ok |-> TRUE, task |-> inner.task]
    ELSE [ok |-> TRUE, task |-> 1]

\* serde_json::from_value::<SignedTaskResponse>(inner_params)
FromValue(inner) ==
    IF inner.kind = "signed"
    THEN [ok |-> TRUE, task |-> inner.task]
    ELSE [ok |-> FALSE, task |-> 0]

\* The handler up to the point where it asks for the aggregator's lock:
\* the outcome is the decoded response or an InvalidParams error.
ParseRequest(p) ==
    LET inner == GetParams(p) IN
    IF ~inner.some
    THEN [ok |-> FALSE, err |-> "InvalidParams", task |-> 0]
    ELSE LET d == FromValue(inner) IN
         IF d.ok
         THEN [ok |-> TRUE, err |-> "none", task |-> d.task]
         ELSE [ok |-> FALSE, err |-> "InvalidParams", task |-> 0]

\* ------------------------------------------------------------------ state
VARIABLES
    coordPc,          \* the task spawned by start()
    serverPc,         \* the task running start_server
    serverResult,     \* what start_server returned: "none" | "Ok" | "Err"
    httpState,        \* the jsonrpc HTTP server: "down" | "up" | "closed" | "stopped"
    closeCount,       \* calls of close_handle.close()
    task_aggregator,  \* AggregatorContext.task_aggregator is Some
    engineRunning,    \* the engine's background processing runs
    aggLock,          \* holder of Arc<Mutex<AggregatorContext>>: 0 free, r a request
    is_shutdown,      \* shutdown.1
    waiterRegistered, \* a Notified future of shutdown.0 is waiting
    wakePending,      \* that future was woken and has not run yet
    shutdownPc,       \* a shutdown() call in progress
    stopOutcome,      \* how the timeout(10 s, task_agg.stop()) of the last call ended
    shutdownRet,      \* what the last shutdown() call returned
    rpc,              \* per request: handler position, payload, answer
    engineReceived,   \* the calls of task_agg.process_signed_response, in order,
                      \* each with the state it found the engine in
    response_cache,   \* AggregatorContext.response_cache
    taskStatus,       \* per task index, as the engine holds it
    pendingAtShutdown,\* the requests in flight when shutdown() was called, until answered
    completion,       \* what the BackgroundService's receiver has been sent
    sendLog,          \* the calls of send_aggregated_response: input and outcome
    indexedTask       \* an IndexedTask and the threshold it reported, if asked

vars == <<coordPc, serverPc, serverResult, httpState, closeCount, task_aggregator,
          engineRunning, aggLock, is_shutdown, waiterRegistered, wakePending,
          shutdownPc, stopOutcome, shutdownRet, rpc,
          engineReceived, response_cache, taskStatus,
          pendingAtShutdown, completion, sendLog, indexedTask>>

IdleRequest ==
    [pc |-> "idle",
     payload |-> [outer |-> "NotObject", kind |-> "absent", task |-> 0],
     resp |-> NoResponse, result |-> "none", late |-> FALSE]

\* No IndexedTask made yet; reported is -1 until the threshold is asked for.
NoIndexedTask == [made |-> FALSE, threshold |-> 0, reported |-> -1]

\* A request the server has accepted and not yet answered.
InFlight(r) == rpc[r].pc \in {"decoded", "inEngine"}

\* AggregatorContext::new: an empty cache, the flag false, the engine built
\* and stored (the only constructor; the shutdown field is private).
Init ==
    /\ coordPc = "notstarted"
    /\ serverPc = "notspawned"
    /\ serverResult = "none"
    /\ httpState = "down"
    /\ closeCount = 0
    /\ task_aggregator = TRUE
    /\ engineRunning = FALSE
    /\ aggLock = 0
    /\ is_shutdown = FALSE
    /\ waiterRegistered = FALSE
    /\ wakePending = FALSE
    /\ shutdownPc = "idle"
    /\ stopOutcome = "none"
    /\ shutdownRet = "none"
    /\ rpc = [r \in Reqs |-> IdleRequest]
    /\ engineReceived = <<>>
    /\ response_cache = <<>>
    /\ taskStatus = [t \in Tasks |-> "Unregistered"]
    /\ pendingAtShutdown = {}
    /\ completion = "none"
    /\ sendLog = <<>>
    /\ indexedTask = NoIndexedTask

\* ------------------------------------------------- AggregatorContext::start
\* What the BackgroundService's task sends on its completion channel once
\* ctx.start() has returned: tx.send(Ok(())), whatever happens later.
CompletionSent == "Ok"

\* start(self): the context moves into Arc<Mutex<_>> and the coordinator
\* task is spawned; the caller gets its JoinHandle<()> at once.  start() has
\* no await of its own, so the BackgroundService task that called it sends
\* its completion in the same poll.
Start ==
    /\ coordPc = "notstarted"
    /\ coordPc' = "spawned"
    /\ completion' = CompletionSent
    /\ UNCHANGED <<serverPc, serverResult, httpState, closeCount, task_aggregator,
                   engineRunning, aggLock, is_shutdown, waiterRegistered,
                   wakePending, shutdownPc, stopOutcome,
                   shutdownRet, rpc, engineReceived, response_cache, taskStatus>>
    /\ UNCHANGED <<pendingAtShutdown, sendLog, indexedTask>>

\* A coordinator that spawns the server without having started the engine.
CoordSpawnsServerOnly ==
    /\ coordPc = "spawned"
    /\ serverPc = "notspawned"
    /\ aggLock = 0
    /\ serverPc' = "setup"
    /\ UNCHANGED <<coordPc, engineRunning, serverResult, httpState, closeCount,
                   task_aggregator, aggLock, is_shutdown, waiterRegistered,
                   wakePending, shutdownPc, stopOutcome, shutdownRet, rpc,
                   engineReceived, response_cache, taskStatus>>
    /\ UNCHANGED <<pendingAtShutdown, completion, sendLog, indexedTask>>

\* The coordinator task up to its await of the server: under the lock,
\* `if let Some(task_agg) = &aggregator.lock().await.task_aggregator
\*      { task_agg.start().await }`, the lock released after the block, then
\* tokio::spawn(Self::start_server(..)).
CoordStartEngine ==
    /\ coordPc = "spawned"
    /\ aggLock = 0
    /\ engineRunning' = (IF task_aggregator THEN TRUE ELSE engineRunning)
    /\ coordPc' = "awaitServer"
    /\ serverPc' = "setup"
    /\ UNCHANGED <<serverResult, httpState, closeCount, task_aggregator,
                   aggLock, is_shutdown, waiterRegistered, wakePending,
                   shutdownPc, stopOutcome, shutdownRet, rpc,
                   engineReceived, response_cache, taskStatus>>
    /\ UNCHANGED <<pendingAtShutdown, completion, sendLog, indexedTask>>

\* server_handle.await returned: only a JoinError is looked at (and logged);
\* the Result start_server returned is dropped.  "Aggregator shutdown complete".
CoordJoin ==
    /\ coordPc = "awaitServer"
    /\ serverPc = "done"
    /\ coordPc' = "done"
    /\ UNCHANGED <<serverPc, serverResult, httpState, closeCount, task_aggregator,
                   engineRunning, aggLock, is_shutdown, waiterRegistered,
                   wakePending, shutdownPc, stopOutcome,
                   shutdownRet, rpc, engineReceived, response_cache, taskStatus>>
    /\ UNCHANGED <<pendingAtShutdown, completion, sendLog, indexedTask>>

\* ------------------------------------------ AggregatorContext::start_server
\* The listen address is read under the lock and parsed, and the HTTP server
\* is started; either can fail, and start_server returns the error.
ServerSetup(addrOk, bindOk) ==
    /\ serverPc = "setup"
    /\ aggLock = 0
    /\ IF addrOk /\ bindOk
       THEN /\ httpState' = "up"
            /\ serverPc' = "started"
            /\ UNCHANGED serverResult
       ELSE /\ serverPc' = "done"
            /\ serverResult' = "Err"
            /\ UNCHANGED httpState
    /\ UNCHANGED <<coordPc, closeCount, task_aggregator, engineRunning, aggLock,
                   is_shutdown, waiterRegistered, wakePending, shutdownPc,
                   stopOutcome, shutdownRet, rpc, engineReceived,
                   response_cache, taskStatus>>
    /\ UNCHANGED <<pendingAtShutdown, completion, sendLog, indexedTask>>

\* `let shutdown = { let agg = aggregator.lock().await; agg.shutdown.clone() }`
\* waits for the lock a handler may hold; then spawn_blocking(server.wait())
\* and the first poll of select!: the third branch runs to
\* notify.notified().await, which registers the waiter.  The flag is not
\* read before waiting.
ServerEnterSelect ==
    /\ serverPc = "started"
    /\ aggLock = 0
    /\ serverPc' = "select"
    /\ waiterRegistered' = TRUE
    /\ UNCHANGED <<coordPc, serverResult, httpState, closeCount, task_aggregator,
                   engineRunning, aggLock, is_shutdown, wakePending, shutdownPc,
                   stopOutcome, shutdownRet, rpc, engineReceived,
                   response_cache, taskStatus>>
    /\ UNCHANGED <<pendingAtShutdown, completion, sendLog, indexedTask>>

\* The HTTP server stops on its own (server.wait() returns): the environment.
HttpStopsNaturally ==
    /\ httpState = "up"
    /\ httpState' = "stopped"
    /\ UNCHANGED <<coordPc, serverPc, serverResult, closeCount, task_aggregator,
                   engineRunning, aggLock, is_shutdown, waiterRegistered,
                   wakePending, shutdownPc, stopOutcome,
                   shutdownRet, rpc, engineReceived, response_cache, taskStatus>>
    /\ UNCHANGED <<pendingAtShutdown, completion, sendLog, indexedTask>>

\* A select! that waits for the shutdown signal alone: a server that stopped
\* on its own ends the server task only once the signal has come as well.
ServerWatchesSignalOnly ==
    /\ serverPc = "select"
    /\ httpState = "stopped"
    /\ wakePending /\ is_shutdown
    /\ serverPc' = "done"
    /\ serverResult' = "Ok"
    /\ waiterRegistered' = FALSE
    /\ wakePending' = FALSE
    /\ UNCHANGED <<coordPc, httpState, closeCount, task_aggregator, engineRunning,
                   aggLock, is_shutdown, shutdownPc, stopOutcome,
                   shutdownRet, rpc, engineReceived, response_cache, taskStatus>>
    /\ UNCHANGED <<pendingAtShutdown, completion, sendLog, indexedTask>>

\* select!, first two branches: the blocking task finished / server_rx fired.
ServerStoppedBranch ==
    /\ serverPc = "select"
    /\ httpState = "stopped"
    /\ serverPc' = "done"
    /\ serverResult' = "Ok"
    /\ waiterRegistered' = FALSE
    /\ wakePending' = FALSE
    /\ UNCHANGED <<coordPc, httpState, closeCount, task_aggregator, engineRunning,
                   aggLock, is_shutdown, shutdownPc, stopOutcome,
                   shutdownRet, rpc, engineReceived, response_cache, taskStatus>>
    /\ UNCHANGED <<pendingAtShutdown, completion, sendLog, indexedTask>>

\* select!, third branch: woken, the loop reads the flag; set, it breaks and
\* the branch closes the close handle; not set, it waits again.
ServerShutdownBranch ==
    /\ serverPc = "select"
    /\ wakePending
    /\ wakePending' = FALSE
    /\ IF is_shutdown
       THEN /\ closeCount' = closeCount + 1
            /\ httpState' = (IF httpState = "up" THEN "closed" ELSE httpState)
            /\ serverPc' = "done"
            /\ serverResult' = "Ok"
            /\ waiterRegistered' = FALSE
       ELSE /\ waiterRegistered' = TRUE
            /\ UNCHANGED <<closeCount, httpState, serverPc, serverResult>>
    /\ UNCHANGED <<coordPc, task_aggregator, engineRunning, aggLock, is_shutdown,
                   shutdownPc, stopOutcome, shutdownRet, rpc,
                   engineReceived, response_cache, taskStatus>>
    /\ UNCHANGED <<pendingAtShutdown, completion, sendLog, indexedTask>>

\* ---------------------------------------------- AggregatorContext::shutdown
\* shutdown(&self) on a clone of a started context; it is called once, as
\* its contract has it.  pendingAtShutdown notes the requests in flight at
\* that moment; a request leaves it when it is answered.
ShutdownCall ==
    /\ coordPc # "notstarted"
    /\ shutdownPc = "idle"
    /\ shutdownPc' = "stopping"
    /\ pendingAtShutdown' = {r \in Reqs : InFlight(r)}
    /\ UNCHANGED <<coordPc, serverPc, serverResult, httpState, closeCount,
                   task_aggregator, engineRunning, aggLock, is_shutdown,
                   waiterRegistered, wakePending, stopOutcome, shutdownRet, rpc,
                   engineReceived, response_cache, taskStatus>>
    /\ UNCHANGED <<completion, sendLog, indexedTask>>

StopOutcomes == {"Ok", "Err", "Timeout"}

\* A shutdown() that goes on to the flag without awaiting the engine's stop.
ShutdownSkipsStop(o) ==
    /\ shutdownPc = "stopping"
    /\ shutdownPc' = "setflag"
    /\ UNCHANGED <<stopOutcome, engineRunning>>
    /\ UNCHANGED <<coordPc, serverPc, serverResult, httpState, closeCount,
                   task_aggregator, aggLock, is_shutdown, waiterRegistered,
                   wakePending, shutdownRet, rpc, engineReceived,
                   response_cache, taskStatus>>
    /\ UNCHANGED <<pendingAtShutdown, completion, sendLog, indexedTask>>

\* match timeout(10 s, task_agg.stop()).await: the three arms only log.  Only
\* a stop that returned Ok is known to have stopped the engine.
ShutdownStop(o) ==
    /\ shutdownPc = "stopping"
    /\ IF task_aggregator
       THEN /\ stopOutcome' = o
            /\ engineRunning' = (IF o = "Ok" THEN FALSE ELSE engineRunning)
       ELSE /\ stopOutcome' = "NoEngine"
            /\ UNCHANGED engineRunning
    /\ shutdownPc' = "setflag"
    /\ UNCHANGED <<coordPc, serverPc, serverResult, httpState, closeCount,
                   task_aggregator, aggLock, is_shutdown, waiterRegistered,
                   wakePending, shutdownRet, rpc, engineReceived,
                   response_cache, taskStatus>>
    /\ UNCHANGED <<pendingAtShutdown, completion, sendLog, indexedTask>>

\* *is_shutdown.lock().await = true
ShutdownSetFlag ==
    /\ shutdownPc = "setflag"
    /\ is_shutdown' = TRUE
    /\ shutdownPc' = "notify"
    /\ UNCHANGED <<coordPc, serverPc, serverResult, httpState, closeCount,
                   task_aggregator, engineRunning, aggLock, waiterRegistered,
                   wakePending, stopOutcome, shutdownRet, rpc,
                   engineReceived, response_cache, taskStatus>>
    /\ UNCHANGED <<pendingAtShutdown, completion, sendLog, indexedTask>>

\* What shutdown() hands back to its caller: the function has no return type.
ShutdownReturn(o) == "Unit"

\* notify.notify_waiters(): wakes the waiters registered now and stores no
\* permit; then shutdown returns.
ShutdownNotify ==
    /\ shutdownPc = "notify"
    /\ IF waiterRegistered
       THEN wakePending' = TRUE /\ waiterRegistered' = FALSE
       ELSE UNCHANGED <<wakePending, waiterRegistered>>
    /\ shutdownPc' = "done"
    /\ shutdownRet' = ShutdownReturn(stopOutcome)
    /\ UNCHANGED <<coordPc, serverPc, serverResult, httpState, closeCount,
                   task_aggregator, engineRunning, aggLock, is_shutdown,
                   stopOutcome, rpc, engineReceived,
                   response_cache, taskStatus>>
    /\ UNCHANGED <<pendingAtShutdown, completion, sendLog, indexedTask>>

\* ------------------------- the process_signed_task_response JSON-RPC method
\* The HTTP server takes a request while it is up, and the handler runs to
\* its first await: params.parse()?, outer_params.get("params").ok_or_else(..)?
\* and serde_json::from_value(..).map_err(..)?, where an error is the
\* method's answer.  Requests are numbered in the order they arrive.  `late`
\* records that the request carries a well-formed response for a task that
\* had expired when it arrived.
Receive(r, p) ==
    /\ httpState = "up"
    /\ rpc[r].pc = "idle"
    /\ IF r = 1 THEN TRUE ELSE rpc[r - 1].pc # "idle"
    /\ LET d == ParseRequest(p) IN
       rpc' = [rpc EXCEPT ![r] =
                 IF d.ok
                 THEN [pc |-> "decoded", payload |-> p,
                       resp |-> [task |-> d.task],
                       result |-> "none",
                       late |-> taskStatus[d.task] = "Expired"]
                 ELSE [pc |-> "done", payload |-> p, resp |-> NoResponse,
                       result |-> d.err, late |-> FALSE]]
    /\ UNCHANGED <<coordPc, serverPc, serverResult, httpState, closeCount,
                   task_aggregator, engineRunning, aggLock, is_shutdown,
                   waiterRegistered, wakePending, shutdownPc, stopOutcome, shutdownRet, engineReceived, response_cache,
                   taskStatus>>
    /\ UNCHANGED <<pendingAtShutdown, completion, sendLog, indexedTask>>

\* The engine as a call of it finds it: "notstarted" until the coordinator
\* is past task_agg.start().await, then "running" until a stop() that
\* shutdown() awaited returned Ok, "stopped" after that.
EngineStarted == task_aggregator /\ coordPc \in {"awaitServer", "done"}

EngineState ==
    IF engineRunning THEN "running"
    ELSE IF EngineStarted THEN "stopped" ELSE "notstarted"

\* A process_signed_task_response that returns an error for a response whose
\* task has expired.
ProcessResultByStatus(resp, status) ==
    IF status = "Expired" THEN "Err" ELSE "Ok"

\* What process_signed_task_response returns once the engine call is over:
\* the engine's call yields nothing that is looked at.
ProcessResult(resp, status) == "Ok"

\* aggregator.lock().await, whose guard lives to the end of the expression,
\* that is until process_signed_task_response has returned; then
\* process_signed_task_response: task response, signature and operator id
\* are moved into a GenericSignedTaskResponse, which the engine is given.
\* Without an engine the call fails with Error::Context.  The cache is not
\* written.
ProcessSignedTaskResponse(r) ==
    /\ rpc[r].pc = "decoded"
    /\ aggLock = 0
    /\ IF task_aggregator
       THEN /\ engineReceived' =
                  Append(engineReceived,
                         [req |-> r, task |-> rpc[r].resp.task,
                          engine |-> EngineState])
            /\ rpc' = [rpc EXCEPT ![r].pc = "inEngine"]
            /\ aggLock' = r
            /\ UNCHANGED pendingAtShutdown
       ELSE /\ rpc' = [rpc EXCEPT ![r].pc = "done",
                                  ![r].result = "InvalidParams"]
            /\ pendingAtShutdown' = pendingAtShutdown \ {r}
            /\ UNCHANGED <<aggLock, engineReceived>>
    /\ UNCHANGED <<coordPc, serverPc, serverResult, httpState, closeCount,
                   task_aggregator, engineRunning, is_shutdown,
                   waiterRegistered, wakePending, shutdownPc, stopOutcome, shutdownRet, response_cache, taskStatus>>
    /\ UNCHANGED <<completion, sendLog, indexedTask>>

\* The engine call returns, Ok(()) becomes Value::Bool(true) (an Err would
\* become InvalidParams), and the guard is dropped.
HandlerReturn(r) ==
    /\ rpc[r].pc = "inEngine"
    /\ aggLock = r
    /\ rpc' = [rpc EXCEPT
                 ![r].pc = "done",
                 ![r].result =
                     IF ProcessResult(rpc[r].resp, taskStatus[rpc[r].resp.task]) = "Ok"
                     THEN "true" ELSE "InvalidParams"]
    /\ aggLock' = 0
    /\ pendingAtShutdown' = pendingAtShutdown \ {r}
    /\ UNCHANGED <<coordPc, serverPc, serverResult, httpState, closeCount,
                   task_aggregator, engineRunning, is_shutdown,
                   waiterRegistered, wakePending, shutdownPc, stopOutcome, shutdownRet, engineReceived, response_cache,
                   taskStatus>>
    /\ UNCHANGED <<completion, sendLog, indexedTask>>

\* ------------------------------------------ AggregatorContext::register_task
\* What register_task returns: the engine's verdict, an error as
\* Error::Context; Error::Context too when there is no engine.
RegisterResult(engineSome, verdict) ==
    IF engineSome /\ verdict = "Ok" THEN "Ok" ELSE "ErrContext"

\* register_task wraps the task with its index and hands it to the engine.
\* Only a first registration of an index is followed here: what the engine
\* does with a repeated one is its own code.
RegisterTask(t, verdict) ==
    /\ taskStatus[t] = "Unregistered"
    /\ RegisterResult(task_aggregator, verdict) = "Ok"
    /\ taskStatus' = [taskStatus EXCEPT ![t] = "Open"]
    /\ UNCHANGED <<coordPc, serverPc, serverResult, httpState, closeCount,
                   task_aggregator, engineRunning, aggLock, is_shutdown,
                   waiterRegistered, wakePending, shutdownPc, stopOutcome, shutdownRet, rpc, engineReceived,
                   response_cache>>
    /\ UNCHANGED <<pendingAtShutdown, completion, sendLog, indexedTask>>

\* The deadline of an open task elapses (the specification's expire).
ExpireTask(t) ==
    /\ taskStatus[t] = "Open"
    /\ taskStatus' = [taskStatus EXCEPT ![t] = "Expired"]
    /\ UNCHANGED <<coordPc, serverPc, serverResult, httpState, closeCount,
                   task_aggregator, engineRunning, aggLock, is_shutdown,
                   waiterRegistered, wakePending, shutdownPc, stopOutcome, shutdownRet, rpc, engineReceived,
                   response_cache>>
    /\ UNCHANGED <<pendingAtShutdown, completion, sendLog, indexedTask>>

\* ------------------------------------------------ IndexedTask (task.rs)
\* The values a task's quorumThresholdPercentage field is drawn from: an
\* unsigned integer wider than 8 bits, of which the values up to
\* MaxThresholdField are followed.
ThresholdFields == 0..MaxThresholdField

\* IndexedTask::new(task, task_index), as register_task builds it.
NewIndexedTask(f) ==
    /\ indexedTask' = [made |-> TRUE, threshold |-> f, reported |-> -1]
    /\ UNCHANGED <<coordPc, serverPc, serverResult, httpState, closeCount,
                   task_aggregator, engineRunning, aggLock, is_shutdown,
                   waiterRegistered, wakePending, shutdownPc, stopOutcome,
                   shutdownRet, rpc, engineReceived, response_cache, taskStatus,
                   pendingAtShutdown, completion, sendLog>>

\* self.task.quorumThresholdPercentage as u8: the cast keeps the low 8 bits.
QuorumThresholdPercentage(t) == t.threshold % 256

\* The engine asks the task for its threshold percentage.
ReportThreshold ==
    /\ indexedTask.made
    /\ indexedTask.reported = -1
    /\ indexedTask' = [indexedTask EXCEPT
                         !.reported = QuorumThresholdPercentage(indexedTask)]
    /\ UNCHANGED <<coordPc, serverPc, serverResult, httpState, closeCount,
                   task_aggregator, engineRunning, aggLock, is_shutdown,
                   waiterRegistered, wakePending, shutdownPc, stopOutcome,
                   shutdownRet, rpc, engineReceived, response_cache, taskStatus,
                   pendingAtShutdown, completion, sendLog>>

\* ----------------------- SquaringTaskResponseSender::send_aggregated_response
\* What one call is given and meets: the task (by its index; the response
\* and the aggregation result that go with it are TaskResponseOf and
\* AggregationResultOf), whether the aggregation result's points convert
\* (convert_to_g1_point / convert_to_g2_point), whether the ledger takes the
\* transaction, and whether a receipt for it comes back.
SendInputs ==
    [task : Tasks, pointsOk : BOOLEAN, sendAccepted : BOOLEAN,
     receiptFound : BOOLEAN]

\* The Task inside the IndexedTask the call is given (told apart by its
\* creation block) and the TaskResponse that refers to it.
TaskOf(t) == [taskCreatedBlock |-> t]

TaskResponseOf(t) == [referenceTaskIndex |-> t]

\* A BlsAggregationServiceResponse for task t: every field holds values no
\* other field holds, and the lists of points have an order.
AggregationResultOf(t) ==
    [non_signers_pub_keys_g1 |-> << <<10 * t + 1, 10 * t + 2>>,
                                    <<10 * t + 3, 10 * t + 4>> >>,
     non_signer_quorum_bitmap_indices |-> <<100 + t, 101 + t>>,
     quorum_apks_g1 |-> << <<10 * t + 5, 10 * t + 6>>,
                           <<10 * t + 7, 10 * t + 8>> >>,
     signers_apk_g2 |-> <<200 + t, 201 + t>>,
     signers_agg_sig_g1 |-> <<300 + t, 301 + t>>,
     quorum_apk_indices |-> <<400 + t>>,
     total_stake_indices |-> <<500 + t>>,
     non_signer_stake_indices |-> << <<600 + t>> >>]

\* to_g1_point / to_g2_point: the converted point's coordinates become the
\* contract type's X and Y.
to_g1_point(pk) == [X |-> pk[1], Y |-> pk[2]]

to_g2_point(pk) == [X |-> pk[1], Y |-> pk[2]]

\* The NonSignerStakesAndSignature built from the aggregation result.
NonSignerStakesAndSignature(agg) ==
    [nonSignerPubkeys |->
        [k \in 1..Len(agg.non_signers_pub_keys_g1) |->
            to_g1_point(agg.non_signers_pub_keys_g1[k])],
     nonSignerQuorumBitmapIndices |-> agg.non_signer_quorum_bitmap_indices,
     quorumApks |->
        [k \in 1..Len(agg.quorum_apks_g1) |-> to_g1_point(agg.quorum_apks_g1[k])],
     apkG2 |-> to_g2_point(agg.signers_apk_g2),
     sigma |-> to_g1_point(agg.signers_agg_sig_g1),
     quorumApkIndices |-> agg.quorum_apk_indices,
     totalStakeIndices |-> agg.total_stake_indices,
     nonSignerStakeIndices |-> agg.non_signer_stake_indices]

\* contract.respondToSquaringTask(task, response, proof): the transaction.
RespondToSquaringTask(in) ==
    [task |-> TaskOf(in.task),
     response |-> TaskResponseOf(in.task),
     proof |-> NonSignerStakesAndSignature(AggregationResultOf(in.task))]

\* A sender that does not look at what get_receipt() returned.
SendIgnoringReceipt(in) ==
    IF ~in.pointsOk
    THEN [sent |-> FALSE, receipt |-> FALSE, result |-> "Panic", txs |-> <<>>]
    ELSE IF ~in.sendAccepted
    THEN [sent |-> TRUE, receipt |-> FALSE, result |-> "ContractError",
          txs |-> <<RespondToSquaringTask(in)>>]
    ELSE [sent |-> TRUE, receipt |-> in.receiptFound, result |-> "Ok",
          txs |-> <<RespondToSquaringTask(in)>>]

\* A sender that sends the transaction a second time when the ledger
\* rejected the first.
SendWithRetry(in) ==
    IF ~in.pointsOk
    THEN [sent |-> FALSE, receipt |-> FALSE, result |-> "Panic", txs |-> <<>>]
    ELSE IF ~in.sendAccepted
    THEN [sent |-> TRUE, receipt |-> FALSE, result |-> "ContractError",
          txs |-> <<RespondToSquaringTask(in), RespondToSquaringTask(in)>>]
    ELSE IF ~in.receiptFound
    THEN [sent |-> TRUE, receipt |-> FALSE, result |-> "ContractError",
          txs |-> <<RespondToSquaringTask(in)>>]
    ELSE [sent |-> TRUE, receipt |-> TRUE, result |-> "Ok",
          txs |-> <<RespondToSquaringTask(in)>>]

\* The future send_aggregated_response returns, run to its end: the points
\* are converted with expect() (a point that does not convert panics, before
\* anything is sent); respondToSquaringTask(..).send() is awaited once, an
\* error leaving as ContractError; get_receipt() is awaited once, an error
\* leaving as ContractError; then Ok(()).  `sent` says that send() was
\* called, `receipt` that a receipt was obtained, `txs` lists the
\* transactions handed to the ledger.
SendAggregatedResponse(in) ==
    IF ~in.pointsOk
    THEN [sent |-> FALSE, receipt |-> FALSE, result |-> "Panic", txs |-> <<>>]
    ELSE IF ~in.sendAccepted
    THEN [sent |-> TRUE, receipt |-> FALSE, result |-> "ContractError",
          txs |-> <<RespondToSquaringTask(in)>>]
    ELSE IF ~in.receiptFound
    THEN [sent |-> TRUE, receipt |-> FALSE, result |-> "ContractError",
          txs |-> <<RespondToSquaringTask(in)>>]
    ELSE [sent |-> TRUE, receipt |-> TRUE, result |-> "Ok",
          txs |-> <<RespondToSquaringTask(in)>>]

\* The engine calls the sender it was built with.
Send(in) ==
    /\ Len(sendLog) < MaxSends
    /\ sendLog' = Append(sendLog, [in |-> in, out |-> SendAggregatedResponse(in)])
    /\ UNCHANGED <<coordPc, serverPc, serverResult, httpState, closeCount,
                   task_aggregator, engineRunning, aggLock, is_shutdown,
                   waiterRegistered, wakePending, shutdownPc, stopOutcome,
                   shutdownRet, rpc, engineReceived, response_cache, taskStatus,
                   pendingAtShutdown, completion, indexedTask>>

\* ---------------------------------------------------------- specification
CoordNext == CoordStartEngine \/ CoordJoin

ServerNext ==
    \/ \E a \in BOOLEAN, b \in BOOLEAN : ServerSetup(a, b)
    \/ ServerEnterSelect
    \/ ServerStoppedBranch
    \/ ServerShutdownBranch

ShutdownSteps ==
    \/ \E o \in StopOutcomes : ShutdownStop(o)
    \/ ShutdownSetFlag
    \/ ShutdownNotify

HandlerNext ==
    \E r \in Reqs :
        \/ ProcessSignedTaskResponse(r)
        \/ HandlerReturn(r)

EnvNext ==
    \/ Start
    \/ ShutdownCall
    \/ HttpStopsNaturally
    \/ \E r \in Reqs, p \in Payloads : Receive(r, p)
    \/ \E t \in Tasks, v \in {"Ok", "Err"} : RegisterTask(t, v)
    \/ \E t \in Tasks : ExpireTask(t)

Next == CoordNext \/ ServerNext \/ ShutdownSteps \/ HandlerNext \/ EnvNext

Spec == Init /\ [][Next]_vars

\* The tokio runtime runs every task that can make a step: the coordinator,
\* the server task, a shutdown() call under way and the request handlers.
\* Nothing makes the environment act (start, shutdown, requests, a server
\* that stops on its own).
FairSpec ==
    /\ Spec
    /\ WF_vars(CoordNext)
    /\ WF_vars(ServerNext)
    /\ WF_vars(ShutdownSteps)
    /\ WF_vars(HandlerNext)

\* The sender by itself: the calls the engine makes of it, over every
\* combination of what a call can meet.
SenderNext == \E in \in SendInputs : Send(in)

SenderSpec == Init /\ [][SenderNext]_vars

\* The IndexedTask by itself: tasks are wrapped and asked for their
\* threshold, over every value of the field up to MaxThresholdField.
IndexedTaskNext ==
    \/ \E f \in ThresholdFields : NewIndexedTask(f)
    \/ ReportThreshold

IndexedTaskSpec == Init /\ [][IndexedTaskNext]_vars

\* A context as the library's callers can hold it: task_aggregator is a pub
\* field of a Clone type, None when the struct is built and until new()
\* stores the engine, and start, shutdown, process_signed_task_response and
\* register_task each provide for None.
InitAnyEngine ==
    \E e \in BOOLEAN :
        /\ task_aggregator = e
        /\ coordPc = "notstarted"
        /\ serverPc = "notspawned"
        /\ serverResult = "none"
        /\ httpState = "down"
        /\ closeCount = 0
        /\ engineRunning = FALSE
        /\ aggLock = 0
        /\ is_shutdown = FALSE
        /\ waiterRegistered = FALSE
        /\ wakePending = FALSE
        /\ shutdownPc = "idle"
        /\ stopOutcome = "none"
        /\ shutdownRet = "none"
        /\ rpc = [r \in Reqs |-> IdleRequest]
        /\ engineReceived = <<>>
        /\ response_cache = <<>>
        /\ taskStatus = [t \in Tasks |-> "Unregistered"]
        /\ pendingAtShutdown = {}
        /\ completion = "none"
        /\ sendLog = <<>>
        /\ indexedTask = NoIndexedTask

SpecAnyEngine == InitAnyEngine /\ [][Next]_vars

\* ------------------------------------------------------------------ claims
\* A request whose payload lacks the nested params member (no params, a
\* positional array, an object without the member) or whose params value is
\* no SignedTaskResponse.
Malformed(p) == p.outer # "Map" \/ p.kind # "signed"

HandedToEngine(r) ==
    \E i \in 1..Len(engineReceived) : engineReceived[i].req = r

\* C6: an RPC call whose payload lacks the nested params field, or whose
\* params value does not decode into a SignedTaskResponse, is answered with
\* InvalidParams, never takes the aggregator's lock or reaches the engine,
\* and the step that answers it changes nothing but the request itself: the
\* engine's input, the cache, the task entries and the lifecycle stay as
\* they were.
C6_MalformedRejectedWithoutEffect ==
    /\ [](\A r \in Reqs :
            (rpc[r].pc # "idle" /\ Malformed(rpc[r].payload)) =>
                /\ rpc[r].pc = "done"
                /\ rpc[r].result = "InvalidParams"
                /\ ~HandedToEngine(r)
                /\ aggLock # r)
    /\ [][\A r \in Reqs :
            (rpc[r].pc = "idle" /\ rpc'[r].pc # "idle"
             /\ Malformed(rpc'[r].payload)) =>
                /\ \A q \in Reqs \ {r} : rpc'[q] = rpc[q]
                /\ UNCHANGED <<engineReceived, response_cache, taskStatus,
                               aggLock, engineRunning, task_aggregator,
                               is_shutdown, httpState, coordPc, serverPc>>]_vars

\* C6 witness: one request without the params member and one with params
\* that do not decode have both been answered, the second while a task was
\* registered, and the engine has been given nothing.
C6_Witness ==
    \E r1 \in Reqs, r2 \in Reqs :
        /\ rpc[r1].pc = "done" /\ rpc[r1].payload.kind = "absent"
        /\ rpc[r1].result = "InvalidParams"
        /\ rpc[r2].pc = "done" /\ rpc[r2].payload.kind = "malformed"
        /\ rpc[r2].result = "InvalidParams"
        /\ \E t \in Tasks : taskStatus[t] = "Open"
        /\ engineReceived = <<>>

\* C7 (as claimed): a signed response that arrives after its task expired is
\* rejected: the intake call does not answer it with success.
C7_LateResponseRejected ==
    \A r \in Reqs :
        (rpc[r].pc = "done" /\ rpc[r].late) => rpc[r].result # "true"

\* C8 (as claimed): once shutdown() has been called on a started aggregator,
\* the endpoint eventually stops accepting connections: the close handle is
\* closed, or the server has stopped or never came up.
C8_ShutdownStopsEndpoint ==
    (shutdownPc # "idle") ~>
        (httpState \in {"closed", "stopped"} \/ serverPc = "done")

\* C10 (as claimed): the value shutdown() returns tells a clean shutdown from
\* one whose engine stop failed or timed out: a call that did not end cleanly
\* does not return what a clean one returns.
C10_ReturnTellsOutcome ==
    (shutdownPc = "done" /\ stopOutcome # "Ok") =>
        shutdownRet # ShutdownReturn("Ok")

\* C11 (as claimed): a shutdown() whose engine stop ran into the grace
\* period's timeout has forced the engine to terminate: once the call has
\* returned, the engine's background processing no longer runs.
C11_TimedOutStopForcesTermination ==
    (shutdownPc = "done" /\ stopOutcome = "Timeout") => ~engineRunning

\* C12: when the HTTP server has stopped on its own and shutdown() has been
\* requested, in whichever order, the shutdown() call returns and the server
\* task ends; the server task ends by the branch whose event it found ready
\* (the stopped server: no close; the shutdown signal with the flag set: one
\* close), and the close handle is closed at most once.
C12_NoDeadlockAfterNaturalStop ==
    /\ [](closeCount <= 1)
    /\ (httpState = "stopped" /\ shutdownPc # "idle") ~>
            (shutdownPc = "done" /\ serverPc = "done")
    /\ [][(serverPc = "select" /\ serverPc' = "done") =>
            \/ httpState = "stopped" /\ closeCount' = closeCount
            \/ wakePending /\ is_shutdown /\ closeCount' = closeCount + 1]_vars

\* C12 witness: the server stopped on its own, the server task was woken by
\* the shutdown signal all the same and took that branch (one close), and
\* both shutdown() and the server task are over.
C12_Witness ==
    /\ httpState = "stopped"
    /\ shutdownPc = "done"
    /\ serverPc = "done"
    /\ closeCount = 1

\* C13 (as claimed): while a call that was in flight when shutdown() was
\* requested has not been answered, the server task has not answered the
\* shutdown signal by closing the server and finishing, and so the
\* coordinator has not reached "shutdown complete" that way.
C13_InFlightCallsFinishFirst ==
    \A r \in pendingAtShutdown :
        InFlight(r) => ~(closeCount > 0 /\ serverPc = "done")

\* C14 (as claimed): no single lock makes a request wait for a request that
\* refers to another task: while one request is inside its engine step, a
\* decoded request for a different task finds the lock it needs free, so
\* that it can enter its own engine step.
C14_DifferentTasksInParallel ==
    \A r \in Reqs, q \in Reqs :
        (/\ rpc[r].pc = "inEngine"
         /\ rpc[q].pc = "decoded"
         /\ rpc[r].resp.task # rpc[q].resp.task) => aggLock = 0

\* C16 (as claimed): when start_server failed at startup (the address did
\* not parse, the HTTP server did not start) and the coordinator has
\* finished, the completion channel has reported an error.
C16_StartupFailureReported ==
    (coordPc = "done" /\ serverResult = "Err") => completion = "Err"

\* A well-formed request answered with the error process_signed_task_response
\* returns without an engine ("Task aggregator not initialized", which the
\* handler turns into an invalid-params error).
NotInitializedAnswered(r) ==
    /\ rpc[r].pc = "done"
    /\ ~Malformed(rpc[r].payload)
    /\ rpc[r].result = "InvalidParams"

\* C17 (as claimed): a context without an engine never serves RPC requests,
\* and no request made of a started aggregator is answered with the
\* not-initialized error.
C17_EngineAbsenceFatalAtStartup ==
    /\ ~task_aggregator => httpState # "up"
    /\ \A r \in Reqs : ~NotInitializedAnswered(r)

\* C18: send_aggregated_response returns Ok only when the transaction was
\* sent and a receipt for it was obtained; a call whose send the ledger
\* rejected, or whose receipt did not come, returns the error value
\* ContractError: not Ok, and not a panic.
C18_SuccessMeansReceipt ==
    \A i \in 1..Len(sendLog) :
        LET in == sendLog[i].in
            out == sendLog[i].out
        IN /\ out.result = "Ok" =>
                (out.sent /\ out.receipt /\ in.sendAccepted /\ in.receiptFound)
           /\ (out.sent /\ (~in.sendAccepted \/ ~in.receiptFound)) =>
                out.result = "ContractError"

\* C18 witness: the sender has been called with a send the ledger rejected,
\* with a send it took but whose receipt did not come, and with a send that
\* was confirmed; the first two returned ContractError, the third Ok.
C18_Witness ==
    \E i, j, k \in 1..Len(sendLog) :
        /\ sendLog[i].out.sent /\ ~sendLog[i].in.sendAccepted
        /\ sendLog[i].out.result = "ContractError"
        /\ sendLog[j].in.sendAccepted /\ ~sendLog[j].in.receiptFound
        /\ sendLog[j].out.sent /\ sendLog[j].out.result = "ContractError"
        /\ sendLog[k].out.receipt /\ sendLog[k].out.result = "Ok"

\* C20 (as claimed): every signed response the intake endpoint accepted
\* (answered with true) is held in the response cache.
C20_AcceptedResponsesCached ==
    \A r \in Reqs :
        (rpc[r].pc = "done" /\ rpc[r].result = "true") =>
            \E i \in 1..Len(response_cache) : response_cache[i] = rpc[r].resp

\* C21 (as claimed): whenever the coordinator task spawned by start() has
\* finished, the engine's background processing has been stopped.
C21_EngineStoppedWithCoordinator ==
    coordPc = "done" => ~engineRunning

\* C22 (as claimed): no request whose response was handed to an engine that
\* shutdown() had already stopped is answered with true.
C22_NoSuccessAfterEngineStopped ==
    \A i \in 1..Len(engineReceived) :
        LET e == engineReceived[i] IN
        (e.engine = "stopped" /\ rpc[e.req].pc = "done") =>
            rpc[e.req].result # "true"

\* C23: no signed response reaches the engine's process_signed_response
\* before the engine's start() has completed: every call found the engine
\* started, and the HTTP server exists only once the coordinator is past the
\* engine's start.
C23_EngineStartedBeforeServing ==
    /\ \A i \in 1..Len(engineReceived) : engineReceived[i].engine # "notstarted"
    /\ httpState # "down" => EngineStarted

\* C23 witness: a response was handed to the running engine and its request
\* answered.
C23_Witness ==
    \E i \in 1..Len(engineReceived) :
        /\ engineReceived[i].engine = "running"
        /\ rpc[engineReceived[i].req].pc = "done"

\* The calls of process_signed_response made for request r.
EngineCallsOf(r) ==
    {i \in 1..Len(engineReceived) : engineReceived[i].req = r}

\* C24: every answered request was answered with true or with an
\* InvalidParams error, never with false; with true exactly when its payload
\* decoded into a SignedTaskResponse and the engine is present; and then the
\* engine's process_signed_response was called exactly once for it, with the
\* response the payload carried.  No request leads to more than one call.
C24_TrueOrInvalidParams ==
    \A r \in Reqs :
        /\ Cardinality(EngineCallsOf(r)) <= 1
        /\ rpc[r].pc = "done" =>
            /\ rpc[r].result \in {"true", "InvalidParams"}
            /\ rpc[r].result = "true" <=>
                    (~Malformed(rpc[r].payload) /\ task_aggregator)
            /\ rpc[r].result = "true" =>
                    /\ Cardinality(EngineCallsOf(r)) = 1
                    /\ \A i \in EngineCallsOf(r) :
                            engineReceived[i].task = rpc[r].payload.task

\* C24 witness: of two answered requests one carried a well-formed response
\* for an expired task and was answered true after one engine call, the
\* other was malformed and answered InvalidParams.
C24_Witness ==
    \E r \in Reqs, q \in Reqs :
        /\ rpc[r].pc = "done" /\ rpc[r].result = "true" /\ rpc[r].late
        /\ Cardinality(EngineCallsOf(r)) = 1
        /\ rpc[q].pc = "done" /\ rpc[q].result = "InvalidParams"
        /\ Malformed(rpc[q].payload)

\* C25: the shutdown flag, once true, stays true; and the step in which the
\* server task takes its shutdown branch and closes the close handle is
\* taken with the flag true and after the engine stop of that shutdown()
\* call has returned, failed or timed out.
C25_FlagMonotonicAndSetBeforeClose ==
    /\ [][is_shutdown => is_shutdown']_vars
    /\ [][closeCount' # closeCount =>
            (is_shutdown /\ stopOutcome \in StopOutcomes)]_vars

\* C25 witness: the server task has closed the close handle after a
\* shutdown() whose engine stop timed out.
C25_Witness ==
    /\ closeCount = 1
    /\ is_shutdown
    /\ stopOutcome = "Timeout"
    /\ serverPc = "done"

\* C26 (as claimed): the completion receiver has its value only once the
\* coordinator task spawned by start() has terminated.
C26_CompletionAfterCoordinator ==
    completion # "none" => coordPc = "done"

\* C27 (as claimed): the threshold percentage an IndexedTask reports equals
\* its task's quorumThresholdPercentage field.
C27_ThresholdReportedUnchanged ==
    (indexedTask.made /\ indexedTask.reported # -1) =>
        indexedTask.reported = indexedTask.threshold

\* The k-th point of a list of the aggregation result appears as the k-th
\* point of the proof's list, coordinate for coordinate.
SamePoints(proofList, aggList) ==
    /\ Len(proofList) = Len(aggList)
    /\ \A k \in 1..Len(aggList) :
          proofList[k].X = aggList[k][1] /\ proofList[k].Y = aggList[k][2]

\* The transaction carries the call's task and response and a proof each of
\* whose fields comes from the aggregation result's field of that name.
CarriesWhatWasGiven(tx, in) ==
    LET agg == AggregationResultOf(in.task) IN
    /\ tx.task = TaskOf(in.task)
    /\ tx.response = TaskResponseOf(in.task)
    /\ SamePoints(tx.proof.nonSignerPubkeys, agg.non_signers_pub_keys_g1)
    /\ SamePoints(tx.proof.quorumApks, agg.quorum_apks_g1)
    /\ SamePoints(<<tx.proof.apkG2>>, <<agg.signers_apk_g2>>)
    /\ SamePoints(<<tx.proof.sigma>>, <<agg.signers_agg_sig_g1>>)
    /\ tx.proof.nonSignerQuorumBitmapIndices = agg.non_signer_quorum_bitmap_indices
    /\ tx.proof.quorumApkIndices = agg.quorum_apk_indices
    /\ tx.proof.totalStakeIndices = agg.total_stake_indices
    /\ tx.proof.nonSignerStakeIndices = agg.non_signer_stake_indices

====
